---- MODULE Spec2Model ----
(***************************************************************************)
(* Model of deepmd-jax's simulation driver and neighbor-list partitioner.  *)
(*                                                                         *)
(*   Spec      the example driver loop of examples/simulate.py             *)
(*             (lines 132-181): chunked integration, overflow handling,    *)
(*             trajectory accumulation and save.                           *)
(*   FairSpec  the same loop, with the progress a sequential program has.  *)
(*   PartSpec  NeighborList of deepmd_jax/md.py (lines 192-251): allocate, *)
(*             update and get_nm on the configurations of small systems.   *)
(*   MaskSpec  the per-type mask functions of get_type_mask_fns applied to *)
(*             single table entries.                                       *)
(*   CtorSpec  Simulation.__init__ of deepmd_jax/md.py (lines 43-123), run *)
(*             on every combination of a small set of arguments.           *)
(*   RunSpec   Simulation.run (lines 167-187) called on a constructed      *)
(*             Simulation whose step attribute holds some value.           *)
(*   InnerSpec inner_step (lines 143-164) applied to the carry of one      *)
(*             chunk, step after step.                                     *)
(*                                                                         *)
(* Real numbers of the source are kept exact as integers: the safety       *)
(* factor buffer_size/size is counted in units of 0.05 (1.2 is 24).        *)
(***************************************************************************)
EXTENDS Integers, Sequences, FiniteSets, TLC

\* ------------------------------------------------------------------ bounds
\* Largest per-type neighbor count a configuration of the driver shows.
MaxCount == 1
\* Length of the run (the script asks for 10000 steps).
total_steps == 600
\* buffer_size is a Python float, so "+ 0.05" is absorbed once the value is
\* large; the model absorbs it after MaxBufferIncr increments.
MaxBufferIncr == 2
\* Largest number of devices (jax.device_count()).
MaxK == 2

\* ------------------------------------------------------- program constants
print_every == 200
save_every == 1
\* update_every, buffer_size = 5, 1.2
update_every0 == 5
buffer_size0 == 24
\* buffer_size + 0.05
buffer_step == 1
\* the 1.2 of int(20*(self.size-1.2)), and the 20
SizeRef == 24
SizeScale == 20
\* number of atom types (len(type_idx) - 1)
NTypes == 2

Types == 0 .. (NTypes - 1)
Max(a, b) == IF a >= b THEN a ELSE b
Min(a, b) == IF a <= b THEN a ELSE b

\* int(x) of Python truncates toward zero; num may be negative, den > 0.
IntTrunc(num, den) == IF num >= 0 THEN num \div den ELSE -((-num) \div den)

VARIABLES
    use_neighborlist,  \* script parameter: neighbor-list mode or lattice mode
    i,                 \* step counter of the loop
    NBRS_FLAG,         \* a neighbor overflow happened on the previous attempt
    update_every,      \* steps between neighbor-list updates
    buffer_size,       \* the script's safety factor (units of 0.05)
    neighborlist,      \* the NeighborListLoader object used by allocate/update
    state,             \* simulation state: steps integrated, configuration
    nbrs_list,         \* the neighbor list in use (None in lattice mode)
    pos, vel,          \* frames produced by the last chunk attempt
    pos_traj, vel_traj,\* accumulated trajectory (list of sampled batches)
    files,             \* what np.save has written
    pc,                \* "loop", "break", "done", "error"; "off" outside Spec
    last,              \* what the last iteration did (history)
    K,                 \* jax.device_count()
    type_count,        \* atoms of each type
    mask_fns,          \* what the closures of get_type_mask_fns captured
    size,              \* NeighborList.size, the safety factor (units of 0.05)
    near,              \* the configuration: pairs of atoms within rcut
    knbr,              \* NeighborList.knbr, the row width of each type
    nbrs,              \* the neighbor list: idx table, did_buffer_overflow
    nm,                \* what get_nm returned
    probe,             \* a table entry and what each mask function made of it
    ppc,               \* "new", "allocated", "updated", "nm"; "off" in Spec
    args,              \* the arguments of a Simulation(...) call
    self,              \* the Simulation object: its attributes
    cpc,               \* "call", "constructed", "raised"; "off" outside CtorSpec
    steps,             \* the argument of Simulation.run
    next_chunk,        \* local of Simulation.run
    states,            \* local of Simulation.run: the carry handed to the scan
    rpc,               \* "call", "returned", "TypeError"; "off" outside RunSpec
    carry,             \* the argument of inner_step: (state, nbrs, overflow)
    inner,             \* what the last inner_step did and returned
    ipc                \* "chunk", "AttributeError"; "off" outside InnerSpec

vars == << use_neighborlist, i, NBRS_FLAG, update_every, buffer_size,
           neighborlist, state, nbrs_list, pos, vel, pos_traj, vel_traj,
           files, pc, last,
           K, type_count, mask_fns, size, near, knbr, nbrs, nm, probe, ppc,
           args, self, cpc, steps, next_chunk, states, rpc, carry, inner, ipc >>

driver_vars == << use_neighborlist, i, NBRS_FLAG, update_every, buffer_size,
                  neighborlist, state, nbrs_list, pos, vel, pos_traj, vel_traj,
                  files, pc, last >>
part_vars == << K, type_count, mask_fns, size, near, knbr, nbrs, nm, probe, ppc >>

sim_vars == << args, self, cpc, steps, next_chunk, states, rpc,
              carry, inner, ipc >>

None == [none |-> TRUE]

\* no Simulation object is in play
SimOff ==
    /\ args = None /\ self = None /\ cpc = "off"
    /\ steps = 0 /\ next_chunk = 0 /\ states = None /\ rpc = "off"
    /\ carry = None /\ inner = None /\ ipc = "off"

\* ------------------------------------------------ NeighborList.allocate
\* knbr of allocate, from the per-type maximum neighbor count of the trial
\* list (maxcnt) and the safety factor of the object (sz, units of 0.05):
\*   knbr = int(max * size); knbr = 1 if knbr == 0 else
\*          knbr + 1 + max(int(20*(size-1.2)), 0)
KnbrOf(maxcnt, sz) ==
    [t \in Types |->
        LET k == IntTrunc(maxcnt[t] * sz, SizeScale)
        IN  IF k = 0 THEN 1
            ELSE k + 1 + Max(IntTrunc(SizeScale * (sz - SizeRef), SizeScale), 0)]

\* neighborlist.allocate(st.position): a list sized for configuration st by
\* the object nl, with st's positions as reference.
allocate(nl, st) ==
    [knbr |-> KnbrOf(st.maxcnt, nl.size), size |-> nl.size, ref |-> st.step]

\* NeighborListLoader(box, type_idx, rcut, buffer_size, K)
NeighborListLoader(sz) == [size |-> sz]

Configs == [Types -> 0 .. MaxCount]

\* --------------------------------------------------------------- the loop
\* frames of a chunk attempt that starts from st and integrates n steps
Frames(st, n, field, nbr_ovf, rcut_ovf) ==
    [first |-> st.step + 1, count |-> n, field |-> field,
     nbr_overflow |-> nbr_ovf, rcut_overflow |-> rcut_ovf]

\* x[save_every-1::save_every]
Sample(batch) == [batch EXCEPT !.count = batch.count \div save_every]

\* steps of one chunk in neighbor-list mode: the outer scan runs
\* print_every//update_every times update_every steps
ChunkSteps(ue) == ue * (print_every \div ue)

DriverInit ==
    /\ use_neighborlist \in BOOLEAN
    /\ i = 0
    /\ NBRS_FLAG = FALSE
    /\ update_every = update_every0
    /\ buffer_size = buffer_size0
    /\ \E m \in Configs :
         /\ state = [step |-> 0, maxcnt |-> m]
         /\ neighborlist = IF use_neighborlist
                             THEN NeighborListLoader(buffer_size0) ELSE None
         /\ nbrs_list = IF use_neighborlist
                          THEN allocate(NeighborListLoader(buffer_size0),
                                        [step |-> 0, maxcnt |-> m])
                          ELSE None
    /\ pos = None /\ vel = None
    /\ pos_traj = << >> /\ vel_traj = << >>
    /\ files = None
    /\ pc = "loop"
    /\ last = [outcome |-> "init", checked |-> {}, i |-> 0]
    /\ K = 1 /\ type_count = None /\ mask_fns = None
    /\ size = buffer_size0 /\ near = {}
    /\ knbr = None /\ nbrs = None /\ nm = None
    /\ probe = None /\ ppc = "off"
    /\ SimOff

Init == DriverInit

\* lines 147-149 and 176-178: lattice mode
ChunkLattice ==
    /\ pc = "loop" /\ i < total_steps /\ ~use_neighborlist
    /\ \E m \in Configs :
         state' = [step |-> state.step + print_every, maxcnt |-> m]
    /\ i' = i + print_every
    /\ pos' = Frames(state, print_every, "position", FALSE, FALSE)
    /\ vel' = Frames(state, print_every, "velocity", FALSE, FALSE)
    /\ pos_traj' = Append(pos_traj, Sample(pos'))
    /\ vel_traj' = Append(vel_traj, Sample(pos'))
    /\ last' = [outcome |-> "commit", checked |-> {}, i |-> i]
    /\ UNCHANGED << use_neighborlist, NBRS_FLAG, update_every, buffer_size,
                    neighborlist, nbrs_list, files, pc, part_vars, sim_vars >>

\* what the loop leaves alone whatever the outcome of the chunk
Fixed == UNCHANGED << use_neighborlist, neighborlist, files, part_vars,
                      sim_vars >>

\* ChunkNbrOverflowFirst with the reallocation done from the positions the
\* discarded chunk ended with, not from the pre-chunk positions
ChunkNbrOverflowFirst_FromNew ==
    /\ pc = "loop" /\ i < total_steps /\ use_neighborlist
    /\ ~NBRS_FLAG
    /\ \E r \in BOOLEAN :
         /\ pos' = Frames(state, ChunkSteps(update_every), "position", TRUE, r)
         /\ vel' = Frames(state, ChunkSteps(update_every), "velocity", TRUE, r)
    /\ NBRS_FLAG' = TRUE
    /\ \E m \in Configs :
         nbrs_list' = allocate(neighborlist,
                               [step |-> state.step + ChunkSteps(update_every),
                                maxcnt |-> m])
    /\ last' = [outcome |-> "nbr_first", checked |-> {"nbr"}, i |-> i]
    /\ UNCHANGED << i, update_every, buffer_size, state, pos_traj, vel_traj, pc >>
    /\ Fixed

\* lines 151-152, then 153-162: the chunk ends with a neighbor-buffer
\* overflow for the first time in a row
ChunkNbrOverflowFirst ==
    /\ pc = "loop" /\ i < total_steps /\ use_neighborlist
    /\ ~NBRS_FLAG
    /\ \E r \in BOOLEAN :
         /\ pos' = Frames(state, ChunkSteps(update_every), "position", TRUE, r)
         /\ vel' = Frames(state, ChunkSteps(update_every), "velocity", TRUE, r)
    /\ NBRS_FLAG' = TRUE
    /\ nbrs_list' = allocate(neighborlist, state)
    /\ last' = [outcome |-> "nbr_first", checked |-> {"nbr"}, i |-> i]
    /\ UNCHANGED << i, update_every, buffer_size, state, pos_traj, vel_traj, pc >>
    /\ Fixed

\* lines 151-152, then 153-162: a neighbor-buffer overflow for the second
\* time in a row. Line 157 builds a NeighborListLoader with the new
\* buffer_size and drops it: neighborlist stays the object built at line 90.
ChunkNbrOverflowSecond ==
    /\ pc = "loop" /\ i < total_steps /\ use_neighborlist
    /\ NBRS_FLAG
    /\ \E r \in BOOLEAN :
         /\ pos' = Frames(state, ChunkSteps(update_every), "position", TRUE, r)
         /\ vel' = Frames(state, ChunkSteps(update_every), "velocity", TRUE, r)
    /\ NBRS_FLAG' = FALSE
    /\ buffer_size' = Min(buffer_size + buffer_step, buffer_size0 + MaxBufferIncr)
    /\ nbrs_list' = allocate(neighborlist, state)
    /\ last' = [outcome |-> "nbr_second", checked |-> {"nbr"}, i |-> i]
    /\ UNCHANGED << i, update_every, state, pos_traj, vel_traj, pc >>
    /\ Fixed

\* lines 151-152, 163-172: no neighbor-buffer overflow, an rcut overflow,
\* and update_every can still shrink
ChunkRcutHalve ==
    /\ pc = "loop" /\ i < total_steps /\ use_neighborlist
    /\ update_every # 1
    /\ pos' = Frames(state, ChunkSteps(update_every), "position", FALSE, TRUE)
    /\ vel' = Frames(state, ChunkSteps(update_every), "velocity", FALSE, TRUE)
    /\ NBRS_FLAG' = FALSE
    /\ update_every' = Max(update_every \div 2, 1)
    /\ last' = [outcome |-> "rcut_halve", checked |-> {"nbr", "rcut"}, i |-> i]
    /\ UNCHANGED << i, buffer_size, state, nbrs_list, pos_traj, vel_traj, pc >>
    /\ Fixed

\* ChunkRcutAbort without the break: the chunk is retried once more
ChunkRcutAbort_NoBreak ==
    /\ pc = "loop" /\ i < total_steps /\ use_neighborlist
    /\ update_every = 1
    /\ pos' = Frames(state, ChunkSteps(update_every), "position", FALSE, TRUE)
    /\ vel' = Frames(state, ChunkSteps(update_every), "velocity", FALSE, TRUE)
    /\ NBRS_FLAG' = FALSE
    /\ last' = [outcome |-> "rcut_abort", checked |-> {"nbr", "rcut"}, i |-> i]
    /\ UNCHANGED << i, update_every, buffer_size, state, nbrs_list,
                    pos_traj, vel_traj, pc >>
    /\ Fixed

\* lines 151-152, 163-167: an rcut overflow with update_every == 1: break
ChunkRcutAbort ==
    /\ pc = "loop" /\ i < total_steps /\ use_neighborlist
    /\ update_every = 1
    /\ pos' = Frames(state, ChunkSteps(update_every), "position", FALSE, TRUE)
    /\ vel' = Frames(state, ChunkSteps(update_every), "velocity", FALSE, TRUE)
    /\ NBRS_FLAG' = FALSE
    /\ pc' = "break"
    /\ last' = [outcome |-> "rcut_abort", checked |-> {"nbr", "rcut"}, i |-> i]
    /\ UNCHANGED << i, update_every, buffer_size, state, nbrs_list,
                    pos_traj, vel_traj >>
    /\ Fixed

\* lines 151-152, 163-164, 173-178: no overflow, the chunk is committed
ChunkCommit ==
    /\ pc = "loop" /\ i < total_steps /\ use_neighborlist
    /\ LET n == ChunkSteps(update_every) IN
         /\ \E m \in Configs :
              state' = [step |-> state.step + n, maxcnt |-> m]
         /\ nbrs_list' = [nbrs_list EXCEPT
                              !.ref = state.step + n - update_every]
         /\ i' = i + n
         /\ pos' = Frames(state, n, "position", FALSE, FALSE)
         /\ vel' = Frames(state, n, "velocity", FALSE, FALSE)
    /\ NBRS_FLAG' = FALSE
    /\ pos_traj' = Append(pos_traj, Sample(pos'))
    /\ vel_traj' = Append(vel_traj, Sample(pos'))
    /\ last' = [outcome |-> "commit", checked |-> {"nbr", "rcut"}, i |-> i]
    /\ UNCHANGED << update_every, buffer_size, pc >>
    /\ Fixed

\* lines 179-181, after the loop ends or breaks: np.concatenate of an empty
\* list raises ValueError, otherwise both arrays are saved
Save ==
    /\ \/ pc = "loop" /\ i >= total_steps
       \/ pc = "break"
    /\ IF pos_traj = << >>
         THEN /\ pc' = "error"
              /\ files' = files
         ELSE /\ pc' = "done"
              /\ files' = [pos |-> pos_traj, vel |-> vel_traj]
    /\ last' = [outcome |-> "save", checked |-> {}, i |-> i]
    /\ UNCHANGED << use_neighborlist, i, NBRS_FLAG, update_every, buffer_size,
                    neighborlist, state, nbrs_list, pos, vel, pos_traj, vel_traj,
                    part_vars, sim_vars >>

Next ==
    \/ ChunkLattice
    \/ ChunkNbrOverflowFirst
    \/ ChunkNbrOverflowSecond
    \/ ChunkRcutHalve
    \/ ChunkRcutAbort
    \/ ChunkCommit
    \/ Save

Spec == Init /\ [][Next]_vars

\* a sequential program takes its next step whenever it has one
FairSpec == Spec /\ WF_vars(Next)

\* ======================================================== driver claims
\* a step of the loop that runs a chunk in neighbor-list mode
ChunkAttempt == pc = "loop" /\ i < total_steps /\ use_neighborlist
\* the batches a trajectory list or a saved file holds
Batches(traj) == {traj[k] : k \in 1 .. Len(traj)}
Overflowed(batch) == batch.nbr_overflow \/ batch.rcut_overflow
Persisted ==
    Batches(pos_traj) \cup Batches(vel_traj)
      \cup (IF files = None THEN {} ELSE Batches(files.pos) \cup Batches(files.vel))

\* a discarded chunk leaves the run where it was
DiscardStep ==
    (ChunkAttempt /\ Overflowed(pos'))
      => (/\ state' = state /\ i' = i
          /\ pos_traj' = pos_traj /\ vel_traj' = vel_traj
          /\ pos'.nbr_overflow => nbrs_list' = allocate(neighborlist', state)
          /\ pos'.first = state.step + 1
          /\ \/ pc' = "loop" /\ i' < total_steps
             \/ pc' = "break")

\* C1: a chunk that ends with a neighbor-buffer or an rcut overflow is
\* discarded: state, i, pos_traj and vel_traj are what they were before the
\* chunk, a reallocation is done from the pre-chunk state, and the loop runs
\* the same chunk again (or leaves by break); no batch of a discarded chunk
\* is ever in the accumulated or saved trajectory.
C1_DiscardedChunk ==
    /\ [][DiscardStep]_vars
    /\ [](\A b \in Persisted : ~Overflowed(b))

\* C1 witness: a chunk has been discarded after an earlier one was committed,
\* and the run has been saved after a discard
C1_Witness ==
    /\ pc = "done" /\ use_neighborlist
    /\ pos # None /\ Overflowed(pos)
    /\ Len(files.pos) >= 1

\* C2: whenever a chunk's result is committed (state replaced, i advanced),
\* the driver has inspected that chunk's overflow flags first, in
\* neighbor-list mode and in lattice mode.
C2_FlagsCheckedBeforeCommit ==
    last.outcome = "commit" => last.checked # {}

\* C3: the loop always ends: it reaches i >= total_steps or breaks, and never
\* retries the same chunk forever.
C3_RetriesBounded == <>(pc \in {"done", "error"})

SecondOverflowStep ==
    (ChunkAttempt /\ pos'.nbr_overflow /\ NBRS_FLAG)
      => (/\ buffer_size' >= buffer_size
          /\ buffer_size < buffer_size0 + MaxBufferIncr
               => buffer_size' > buffer_size)
ReallocStep ==
    (ChunkAttempt /\ pos'.nbr_overflow)
      => (/\ nbrs_list'.size = buffer_size'
          /\ neighborlist'.size = buffer_size')
FlagResetStep ==
    (ChunkAttempt /\ ~pos'.nbr_overflow) => ~NBRS_FLAG'

\* C4: on a second consecutive neighbor-buffer overflow buffer_size grows,
\* that reallocation and every later one use the grown factor, and an attempt
\* without neighbor-buffer overflow resets NBRS_FLAG.
C4_ReallocUsesIncreasedBuffer ==
    /\ [][SecondOverflowStep]_vars
    /\ [][ReallocStep]_vars
    /\ [][FlagResetStep]_vars

CapacityStep ==
    (ChunkAttempt /\ pos'.nbr_overflow)
      => (/\ nbrs_list'.size >= nbrs_list.size
          /\ \A t \in Types : nbrs_list'.knbr[t] >= nbrs_list.knbr[t])

\* C5: a reallocation triggered by overflow never makes the safety factor or
\* a type's row width knbr[t] smaller than before.
C5_CapacityMonotone == [][CapacityStep]_vars

RcutStep ==
    (ChunkAttempt /\ pos'.rcut_overflow /\ ~pos'.nbr_overflow)
      => IF update_every = 1
           THEN pc' = "break" /\ i' = i /\ update_every' = 1
           ELSE /\ update_every' = Max(update_every \div 2, 1)
                /\ 2 * update_every' <= update_every
                /\ update_every' >= 1
                /\ pc' = "loop" /\ i' = i /\ state' = state
AfterLoopStep ==
    (pc \in {"break", "done", "error"})
      => (/\ pc' # "loop" /\ i' = i /\ state' = state
          /\ pos' = pos /\ pos_traj' = pos_traj)

TypeCounts ==
    { tc \in [Types -> 0 .. 3] :
        tc[0] >= 1 /\ tc[0] + tc[1] >= 2 /\ tc[0] + tc[1] <= 3 }
\* safety factors: 0.4, 1.0, 1.2 (the default), 1.3
Sizes == {8, 20, 24, 26}

\* np.cumsum([0] + list(f)) at position n
RECURSIVE CumSum(_, _)
CumSum(f, n) == IF n = 0 THEN 0 ELSE CumSum(f, n - 1) + f[n - 1]

\* reorder_by_device: with per device c[t] slots for type t, atom g of type t
\* (g counted within the type) is held by device g // c[t], after that
\* device's slots of the lower types
SlotOf(c, t, g) ==
    (g \div c[t]) * CumSum(c, NTypes) + CumSum(c, t) + (g % c[t])

\* get_mask_by_device(type_count): True for the slots that hold an atom
get_mask_by_device(tc, k) ==
    LET c == [t \in Types |-> -((-tc[t]) \div k)]
    IN  [s \in 0 .. (CumSum(c, NTypes) * k - 1) |->
            \E t \in Types : \E g \in 0 .. (tc[t] - 1) : s = SlotOf(c, t, g)]

\* get_type_mask_fns(type_count), lines 193-198: what every mask_fn captures
get_type_mask_fns(tc, k) ==
    LET c == [t \in Types |-> -((-tc[t]) \div k)]
    IN  [Kmask |-> get_mask_by_device(tc, k),
         type_count_new |-> c,
         type_idx_filled_each |-> [n \in 0 .. NTypes |-> CumSum(c, n)],
         N_each |-> CumSum(c, NTypes)]

Kmask == mask_fns.Kmask
type_count_new == mask_fns.type_count_new
type_idx_filled_each == mask_fns.type_idx_filled_each
N_each == mask_fns.N_each
\* rows of the table, one per slot of the padded coordinate array
Slots == DOMAIN mask_fns.Kmask
RealSlots == {s \in Slots : Kmask[s]}
\* len(coord) after canonicalize: one row per slot
LenCoord == N_each * K

\* mask_fn without the test that the entry is an atom and not padding
mask_fn_NoPaddingCheck(t, r, x) ==
    LET cond ==
          /\ Kmask[r]
          /\ x % N_each >= type_idx_filled_each[t]
          /\ x % N_each < type_idx_filled_each[t + 1]
          /\ x < N_each * K
    IN  IF cond THEN x ELSE N_each * K

\* mask_fn that also blanks the entries held by another device than the row
mask_fn_SameBlock(t, r, x) ==
    LET cond ==
          /\ Kmask[r]
          /\ x % N_each >= type_idx_filled_each[t]
          /\ x % N_each < type_idx_filled_each[t + 1]
          /\ x - type_idx_filled_each[t]
               - (x \div N_each) * (N_each - type_count_new[t]) < type_count[t]
          /\ x < N_each * K
          /\ x \div N_each = r \div N_each
    IN  IF cond THEN x ELSE N_each * K

\* mask_fn of get_type_mask_fns for type t, on entry x of row r:
\*   cond = Kmask[:,None] * ((idx%N_each >= tif[i]) * (idx%N_each < tif[i+1]))
\*   cond *= (idx-tif[i]-(idx//N_each)*(N_each-tcn[i]) < type_count[i])
\*              * (idx < N_each*K)
\*   jnp.where(cond, idx, N_each*K)
mask_fn(t, r, x) ==
    LET cond ==
          /\ Kmask[r]
          /\ x % N_each >= type_idx_filled_each[t]
          /\ x % N_each < type_idx_filled_each[t + 1]
          /\ x - type_idx_filled_each[t]
               - (x \div N_each) * (N_each - type_count_new[t]) < type_count[t]
          /\ x < N_each * K
    IN  IF cond THEN x ELSE N_each * K

\* mask_fn of get_full_mask_fn: Kmask_idx are the slots Kmask leaves out
Kmask_idx == {s \in Slots : ~Kmask[s]}
full_mask_fn(r, x) ==
    LET cond == Kmask[r] /\ x \notin Kmask_idx
    IN  IF cond THEN x ELSE Cardinality(Slots)

RECURSIVE SortedSeq(_)
SortedSeq(S) ==
    IF S = {} THEN << >>
    ELSE LET m == CHOOSE a \in S : \A b \in S : a <= b
         IN  << m >> \o SortedSeq(S \ {m})
RECURSIVE SetMax(_)
SetMax(S) ==
    LET a == CHOOSE b \in S : TRUE
    IN  IF S = {a} THEN a ELSE Max(a, SetMax(S \ {a}))

\* all pairs of atoms; a configuration is the set of pairs within rcut
Pairs == {{a, b} : a \in RealSlots, b \in RealSlots} \ {{a} : a \in RealSlots}

\* partition.neighbor_list(..., custom_mask_function=self.mask_fn): the
\* candidates of row r in configuration nr that the full mask keeps. The
\* padding slots hold coordinates too, so they turn up as raw candidates.
Candidates(r, nr) ==
    LET raw == IF Kmask[r]
                 THEN {a \in RealSlots : {r, a} \in nr} \cup Kmask_idx
                 ELSE Slots \ {r}
    IN  {full_mask_fn(r, x) : x \in raw} \ {LenCoord}
\* the list of width w: each row of idx holds its candidates, then
\* len(coord); did_buffer_overflow when a row (or, ovf, a cell) is too small
NeighborListOf(nr, w, ovf) ==
    LET cand == [r \in Slots |-> SortedSeq(Candidates(r, nr))]
    IN  [idx |-> [r \in Slots |-> [p \in 1 .. w |->
                     IF p <= Len(cand[r]) THEN cand[r][p] ELSE LenCoord]],
         did_buffer_overflow |-> ovf \/ \E r \in Slots : Len(cand[r]) > w]
\* the width of a list built with capacity_multiplier = 1.
TrialWidth(nr) ==
    SetMax({1} \cup {Cardinality(Candidates(r, nr)) : r \in Slots})

\* (fn(idx) < len(coord)).sum(1) for the mask function of type t, at row r
CountValid(t, idx, r) ==
    Cardinality({p \in DOMAIN idx[r] : mask_fn(t, r, idx[r][p]) < LenCoord})
\* the measure taken with .min() over the rows
MaxCountOf_Min(t, idx) ==
    -SetMax({-CountValid(t, idx, r) : r \in DOMAIN idx})

\* (fn(test_nbr.idx) < len(coord)).sum(1).max()
MaxCountOf(t, idx) == SetMax({CountValid(t, idx, r) : r \in Slots})

\* -lax.top_k(-row, k)[0]: the k smallest entries, ascending
RECURSIVE SortAscending(_)
SortAscending(q) ==
    IF q = << >> THEN << >>
    ELSE LET m == CHOOSE p \in DOMAIN q : \A o \in DOMAIN q : q[p] <= q[o]
         IN  << q[m] >> \o SortAscending([o \in 1 .. (Len(q) - 1) |->
                                        IF o < m THEN q[o] ELSE q[o + 1]])
TopKSmallest(row, k) == SubSeq(SortAscending(row), 1, k)
SeqMax(q) == SetMax({q[p] : p \in DOMAIN q})

\* the overflow of get_nm with .all() over the rows in place of .any()
OverflowOf_AllRows(nbrs_idx, nb) ==
    \/ \E t \in Types : \A r \in Slots :
         SeqMax(nbrs_idx[t][r]) < type_idx_filled_each[NTypes] * K
    \/ nb.did_buffer_overflow

\* the overflow of get_nm, line 250: for some type some row of the top-k
\* selection holds no sentinel, or the list itself overflowed
OverflowOf(nbrs_idx, nb) ==
    \/ \E t \in Types : \E r \in Slots :
         SeqMax(nbrs_idx[t][r]) < type_idx_filled_each[NTypes] * K
    \/ nb.did_buffer_overflow

\* NeighborList.get_nm(nbrs), with self.knbr = kn
get_nm(nb, kn) ==
    LET nbrs_idx ==
          [t \in Types |-> [r \in Slots |->
              TopKSmallest([p \in DOMAIN nb.idx[r] |-> mask_fn(t, r, nb.idx[r][p])],
                           kn[t])]]
        nbrs_nm ==
          [t \in Types |-> [r \in Slots |-> [p \in 1 .. kn[t] |->
              LET v == nbrs_idx[t][r][p]
              IN  IF v < type_idx_filled_each[NTypes] * K
                    THEN v - type_idx_filled_each[t]
                           - (v \div type_idx_filled_each[NTypes])
                               * (type_idx_filled_each[NTypes] - type_count_new[t])
                    ELSE type_idx_filled_each[NTypes] * K]]]
    IN  [nbrs_idx |-> nbrs_idx, nbrs_nm |-> nbrs_nm,
         overflow |-> OverflowOf(nbrs_idx, nb)]

\* NeighborList.__init__ on a configuration
PartInit ==
    /\ K \in 1 .. MaxK
    /\ type_count \in TypeCounts
    /\ mask_fns = get_type_mask_fns(type_count, K)
    /\ size \in Sizes
    /\ near \in SUBSET Pairs
    /\ knbr = None /\ nbrs = None /\ nm = None /\ probe = None
    /\ ppc = "new"
    /\ use_neighborlist = TRUE /\ i = 0 /\ NBRS_FLAG = FALSE
    /\ update_every = update_every0 /\ buffer_size = buffer_size0
    /\ neighborlist = None /\ state = None /\ nbrs_list = None
    /\ pos = None /\ vel = None /\ pos_traj = << >> /\ vel_traj = << >>
    /\ files = None /\ pc = "off"
    /\ last = [outcome |-> "init", checked |-> {}, i |-> 0]
    /\ SimOff

\* NeighborList.allocate(coord), lines 224-234
PartAllocate ==
    /\ ppc = "new"
    /\ LET test_nbr == NeighborListOf(near, TrialWidth(near), FALSE)
           kn == KnbrOf([t \in Types |-> MaxCountOf(t, test_nbr.idx)], size)
       IN  /\ knbr' = kn
           /\ nbrs' = NeighborListOf(near, CumSum(kn, NTypes) + 1, FALSE)
    /\ ppc' = "allocated"
    /\ UNCHANGED << K, type_count, mask_fns, size, near, nm, probe,
                    driver_vars, sim_vars >>

\* the configurations one update away: at most one pair of atoms has come
\* within rcut or left it
Moved(nr) == {nr} \cup {(nr \ {pr}) \cup ({pr} \ nr) : pr \in Pairs}

\* NeighborList.update(coord, nbrs), lines 235-236: the atoms have moved; the
\* table keeps its width, and the list reports an overflow of its rows or of
\* its cell buffers
PartUpdate ==
    /\ ppc \in {"allocated", "updated", "nm"}
    /\ \E nr \in Moved(near), cell \in BOOLEAN :
         /\ near' = nr
         /\ nbrs' = NeighborListOf(nr, Len(nbrs.idx[0]),
                                   nbrs.did_buffer_overflow \/ cell)
    /\ nm' = None
    /\ ppc' = "updated"
    /\ UNCHANGED << K, type_count, mask_fns, size, knbr, probe,
                    driver_vars, sim_vars >>

\* NeighborList.get_nm(nbrs), lines 240-251
PartGetNm ==
    /\ ppc \in {"allocated", "updated"}
    /\ nm' = get_nm(nbrs, knbr)
    /\ ppc' = "nm"
    /\ UNCHANGED << K, type_count, mask_fns, size, near, knbr, nbrs,
                    probe, driver_vars, sim_vars >>

PartNext == PartAllocate \/ PartUpdate \/ PartGetNm

PartSpec == PartInit /\ [][PartNext]_vars

\* ------------------------------------------------- mask functions alone
MaskInit ==
    /\ K \in 1 .. MaxK
    /\ type_count \in TypeCounts
    /\ mask_fns = get_type_mask_fns(type_count, K)
    /\ size = buffer_size0 /\ near = {}
    /\ knbr = None /\ nbrs = None /\ nm = None /\ probe = None
    /\ ppc = "mask"
    /\ use_neighborlist = TRUE /\ i = 0 /\ NBRS_FLAG = FALSE
    /\ update_every = update_every0 /\ buffer_size = buffer_size0
    /\ neighborlist = None /\ state = None /\ nbrs_list = None
    /\ pos = None /\ vel = None /\ pos_traj = << >> /\ vel_traj = << >>
    /\ files = None /\ pc = "off"
    /\ last = [outcome |-> "init", checked |-> {}, i |-> 0]
    /\ SimOff

\* every mask function of self.mask_fns applied to entry x of row r
MaskApply ==
    /\ ppc = "mask"
    /\ \E r \in Slots, x \in 0 .. (LenCoord + 1) :
         probe' = [row |-> r, idx |-> x,
                   out |-> [t \in Types |-> mask_fn(t, r, x)]]
    /\ UNCHANGED << K, type_count, mask_fns, size, near, knbr, nbrs, nm, ppc,
                    driver_vars, sim_vars >>

MaskNext == MaskApply

MaskSpec == MaskInit /\ [][MaskNext]_vars

\* ==================================================== partitioner claims
\* The layout the claims speak of, from type_count and K alone: each device
\* holds ceil(type_count[t]/K) slots of type t.
CeilDiv(a, b) == (a + b - 1) \div b
PerDevice == [t \in Types |-> CeilDiv(type_count[t], K)]
TheSentinel == CumSum(PerDevice, NTypes) * K
\* the slots that hold the atoms of type t
AtomSlots(t) == {SlotOf(PerDevice, t, g) : g \in 0 .. (type_count[t] - 1)}
AllAtomSlots == UNION {AtomSlots(t) : t \in Types}
Block(s) == s \div CumSum(PerDevice, NTypes)
\* the entries of row r of the list that are atoms of type t
TrueNbrs(t, r) == {nbrs.idx[r][p] : p \in DOMAIN nbrs.idx[r]} \cap AtomSlots(t)
\* how many entries of row r are atoms of type t
TrueCount(t, r) == Cardinality({p \in DOMAIN nbrs.idx[r] : nbrs.idx[r][p] \in AtomSlots(t)})
\* the entries a top-k selection q kept
Kept(q) == {q[p] : p \in DOMAIN q}

\* C7: after get_nm, if some row holds more atoms of some type t than
\* knbr[t] (so the top-k selection drops a true neighbor), or the list's
\* did_buffer_overflow is set, the overflow get_nm returned is true.
C7_DropsSurfaced ==
    ppc = "nm" =>
      /\ (\E t \in Types, r \in Slots : TrueCount(t, r) > knbr[t]) => nm.overflow
      /\ \A t \in Types, r \in Slots :
           (TrueNbrs(t, r) \ Kept(nm.nbrs_idx[t][r]) # {}) => nm.overflow
      /\ nbrs.did_buffer_overflow => nm.overflow

\* C7 witness: a row holds more atoms of a type than knbr allows, the list
\* itself did not overflow, and get_nm reported overflow
C7_Witness ==
    /\ ppc = "nm" /\ ~nbrs.did_buffer_overflow /\ nm.overflow
    /\ \E t \in Types, r \in Slots :
         /\ TrueCount(t, r) > knbr[t]
         /\ TrueNbrs(t, r) \ Kept(nm.nbrs_idx[t][r]) # {}

\* the largest number of type-t neighbors an atom has in the configuration
TrueMax(t) == SetMax({TrueCount(t, r) : r \in Slots})

\* C8: right after allocate with size >= 1, knbr[t] is at least the largest
\* number of type-t neighbors any atom has, it is measured per type
\* (int(max_t * size) + 1 + padding, and 1 for a type nobody has as a
\* neighbor), every row's count fits and get_nm drops no neighbor.
C8_AllocateFits ==
    (ppc = "allocated" /\ size >= SizeScale) =>
      /\ \A t \in Types :
           /\ knbr[t] >= TrueMax(t)
           /\ knbr[t] = IF TrueMax(t) = 0 THEN 1
                        ELSE (TrueMax(t) * size) \div SizeScale + 1
                               + Max(size - SizeRef, 0)
           /\ \A r \in Slots :
                /\ TrueCount(t, r) <= knbr[t]
                /\ TrueNbrs(t, r) \subseteq Kept(get_nm(nbrs, knbr).nbrs_idx[t][r])
      /\ \A r \in AllAtomSlots, a \in AllAtomSlots :
           ({r, a} \in near /\ r # a) => \E t \in Types : a \in TrueNbrs(t, r)

\* C8 witness: a list allocated with the default factor on a configuration
\* where one type has atoms with two neighbors and the other has none
C8_Witness ==
    /\ ppc = "allocated" /\ size = SizeRef
    /\ \E t \in Types : TrueMax(t) = 2 /\ knbr[t] = 3
    /\ \E t \in Types : TrueMax(t) = 0 /\ knbr[t] = 1

CrossBlock(t, r) == {a \in TrueNbrs(t, r) : Block(a) # Block(r)}

\* C10 as stated: an entry that refers to an atom of another device block
\* than the row's atom is made the sentinel, and get_nm reports overflow when
\* that drops a neighbor.
C10_CrossBlockBecomesSentinel ==
    ppc = "nm" =>
      \A t \in Types, r \in AllAtomSlots :
        /\ CrossBlock(t, r) \cap Kept(nm.nbrs_idx[t][r]) = {}
        /\ CrossBlock(t, r) # {} => nm.overflow

\* C10 amended: the masks do not look at the row's device block. An entry
\* that refers to an atom of type t on another device is kept by the mask of
\* type t, and get_nm renumbers it to the atom's index within its type; it is
\* missing from get_nm's selection only when the row holds more than knbr[t]
\* atoms of type t, and then get_nm reports overflow.
C10_CrossBlockKept ==
    ppc = "nm" =>
      \A t \in Types, r \in AllAtomSlots :
        \A a \in CrossBlock(t, r) :
          /\ mask_fn(t, r, a) = a
          /\ a \notin Kept(nm.nbrs_idx[t][r])
               => (TrueCount(t, r) > knbr[t] /\ nm.overflow)
          /\ \A p \in DOMAIN nm.nbrs_idx[t][r] :
               nm.nbrs_idx[t][r][p] = a =>
                 \E g \in 0 .. (type_count[t] - 1) :
                   a = SlotOf(PerDevice, t, g) /\ nm.nbrs_nm[t][r][p] = g

\* C10 witness: get_nm kept a neighbor that lives on another device
C10_Witness ==
    /\ ppc = "nm" /\ ~nm.overflow
    /\ \E t \in Types, r \in AllAtomSlots :
         CrossBlock(t, r) \cap Kept(nm.nbrs_idx[t][r]) # {}

\* ============================================ Simulation (deepmd_jax/md.py)
\* Lengths are whole Angstroms, temperatures whole Kelvin.

\* class attributes of Simulation
\* _step_chunk_size: int = 10
step_chunk_size == 10
report_interval == 100
\* dr_buffer_neighbor: float = 0.8 and dr_buffer_lattice: float = 1., kept in
\* tenths of an Angstrom where a drift is compared, whole where a box is
dr_buffer_neighbor == 8
dr_buffer_lattice == 1

\* the driver loop and the partitioner are not in play
DriverOff ==
    /\ use_neighborlist = FALSE /\ i = 0 /\ NBRS_FLAG = FALSE
    /\ update_every = update_every0 /\ buffer_size = buffer_size0
    /\ neighborlist = None /\ state = None /\ nbrs_list = None
    /\ pos = None /\ vel = None /\ pos_traj = << >> /\ vel_traj = << >>
    /\ files = None /\ pc = "off"
    /\ last = [outcome |-> "init", checked |-> {}, i |-> 0]
PartOff ==
    /\ K = 1 /\ type_count = None /\ mask_fns = None
    /\ size = buffer_size0 /\ near = {}
    /\ knbr = None /\ nbrs = None /\ nm = None
    /\ probe = None /\ ppc = "off"

\* ------------------------------------------------------------ the inputs
\* edge lengths a box argument is built from
Lens == {-1, 0, 3, 10}
\* the other two edges of a box that is not a scalar
LongEdge == 10
\* A box argument: its array shape, its diagonal, and the value of its
\* off-diagonal entries (0 when there are none or they vanish).
Boxes ==
    {[shape |-> "scalar", diag |-> << l, l, l >>, off |-> 0] : l \in Lens}
      \cup {[shape |-> "vec3", diag |-> << l, LongEdge, LongEdge >>, off |-> 0] :
               l \in Lens}
      \cup {[shape |-> "mat3", diag |-> << l, LongEdge, LongEdge >>, off |-> o] :
               l \in Lens, o \in {0, 1}}
\* self.model.params['rcut'] of the loaded model
Rcuts == {2, 6}
Routines == {"NVE", "NVT_Nose_Hoover", "NPT_Nose_Hoover", "Langevin"}
RoutineArgs == SUBSET {"temperature", "pressure"}
Velocities == {None, [kind |-> "given"]}
Temperatures == {None, [kelvin |-> 300]}

CtorArgs ==
    [box : Boxes, rcut : Rcuts, routine : Routines, routine_args : RoutineArgs,
     velocity : Velocities, init_temperature : Temperatures]

\* box.size == 1 / box.shape == (3,3) / (box == jnp.diag(jnp.diag(box))).all()
BoxSize(box) ==
    IF box.shape = "scalar" THEN 1 ELSE IF box.shape = "vec3" THEN 3 ELSE 9
IsDiagonal(box) == box.off = 0
\* a 3-vector of edge lengths, the form reference_box is kept in
Vec3(d) == [shape |-> "vec3", diag |-> d, off |-> 0]
MinEdge(box) == Min(box.diag[1], Min(box.diag[2], box.diag[3]))
\* "NPT" in self.routine
HasNPT(routine) == routine = "NPT_Nose_Hoover"

\* no exception has been raised
NoError == "none"

\* ------------------------------------------------------ mode selection
\* check_if_use_neighbor_list(box, rcut), lines 30-34: both branches
\* return False
check_if_use_neighbor_list(box, rcut) ==
    IF box.shape = "mat3" THEN FALSE ELSE FALSE

\* compute_lattice_candidate(boxes, rcut) of the data module: the image
\* shifts that cover the cutoff; a box with a non-positive dimension is a
\* fatal configuration error
compute_lattice_candidate(box, rcut) ==
    IF MinEdge(box) <= 0
      THEN [raised |-> "ValueError:box", images |-> None]
      ELSE [raised |-> NoError,
            images |-> [k \in 1 .. 3 |-> (rcut + box.diag[k] - 1) \div box.diag[k]]]

\* get_static_args without the lattice candidate
get_static_args_NoLattice(rcut_maybe_with_buffer, box) ==
    [raised |-> NoError, use_neighbor_list |-> FALSE, lattice |-> None]

\* get_static_args(rcut_maybe_with_buffer, type_count, box), lines 20-28
get_static_args(rcut_maybe_with_buffer, box) ==
    LET use_neighbor_list == check_if_use_neighbor_list(box, rcut_maybe_with_buffer)
    IN  IF use_neighbor_list
          THEN [raised |-> NoError, use_neighbor_list |-> TRUE, lattice |-> None]
          ELSE LET lattice_args ==
                       compute_lattice_candidate(box, rcut_maybe_with_buffer)
               IN  IF lattice_args.raised # NoError
                     THEN [raised |-> lattice_args.raised,
                           use_neighbor_list |-> FALSE, lattice |-> None]
                     ELSE [raised |-> NoError, use_neighbor_list |-> FALSE,
                           lattice |-> lattice_args.images]

\* ---------------------------------------------------- Simulation.__init__
\* lines 66-70: reference_box is assigned for a scalar and for a diagonal
\* 3x3 matrix only; None stands for "the attribute does not exist"
reference_box(box) ==
    LET scalar == IF BoxSize(box) = 1 THEN Vec3(box.diag) ELSE None
    IN  IF box.shape = "mat3" /\ IsDiagonal(box) THEN Vec3(box.diag) ELSE scalar

\* routine_setup without the test for 'pressure'
routine_setup_NoPressureCheck(routine, routine_args) ==
    IF routine = "NVE" THEN [raised |-> NoError, routine_fn |-> "nve"]
    ELSE IF routine = "NVT_Nose_Hoover"
      THEN IF "temperature" \notin routine_args
             THEN [raised |-> "ValueError:temperature", routine_fn |-> "nvt_nose_hoover"]
             ELSE [raised |-> NoError, routine_fn |-> "nvt_nose_hoover"]
    ELSE IF routine = "NPT_Nose_Hoover"
      THEN IF "temperature" \notin routine_args
             THEN [raised |-> "ValueError:temperature", routine_fn |-> "npt_nose_hoover"]
             ELSE [raised |-> NoError, routine_fn |-> "npt_nose_hoover"]
    ELSE [raised |-> "NotImplementedError", routine_fn |-> None]

\* lines 89-108: the routine and its arguments
routine_setup(routine, routine_args) ==
    IF routine = "NVE" THEN [raised |-> NoError, routine_fn |-> "nve"]
    ELSE IF routine = "NVT_Nose_Hoover"
      THEN IF "temperature" \notin routine_args
             THEN [raised |-> "ValueError:temperature", routine_fn |-> "nvt_nose_hoover"]
             ELSE [raised |-> NoError, routine_fn |-> "nvt_nose_hoover"]
    ELSE IF routine = "NPT_Nose_Hoover"
      THEN IF "temperature" \notin routine_args
             THEN [raised |-> "ValueError:temperature", routine_fn |-> "npt_nose_hoover"]
           ELSE IF "pressure" \notin routine_args
             THEN [raised |-> "ValueError:pressure", routine_fn |-> "npt_nose_hoover"]
             ELSE [raised |-> NoError, routine_fn |-> "npt_nose_hoover"]
    ELSE [raised |-> "NotImplementedError", routine_fn |-> None]

\* the object before __init__ assigns anything: the class attribute step = 0
NewSimulation ==
    [reference_box |-> None, static_args |-> None, nbrs |-> None,
     routine_fn |-> None, init_fn_called |-> FALSE, state |-> None,
     step |-> 0, raised |-> NoError]

\* lines 113-121: the state init_fn returns, velocities drawn at kT
InitState(a, box) ==
    [position |-> "position",
     velocity |-> [kind |-> "thermal",
                   kT |-> IF a.init_temperature # None THEN a.init_temperature.kelvin
                                                       ELSE 0],
     box |-> IF HasNPT(a.routine) THEN box ELSE None,
     steps_run |-> 0]

\* state.set(velocity=velocity) of a jax_md state, a frozen dataclass: a new
\* state with the field replaced; st itself is not changed
set(st, velocity) == [st EXCEPT !.velocity = velocity]

\* Simulation.__init__ run to its end or to the exception it raises
Simulation(a) ==
    LET s0 == NewSimulation IN
    \* lines 54-55
    IF a.velocity = None /\ a.init_temperature = None
      THEN [s0 EXCEPT !.raised = "ValueError:velocity"]
    ELSE
    LET s1 == [s0 EXCEPT !.reference_box = reference_box(a.box)] IN
    \* lines 73 and 78 read self.reference_box
    IF s1.reference_box = None
      THEN [s1 EXCEPT !.raised = "AttributeError:reference_box"]
    ELSE
    \* lines 72-81
    LET sa == get_static_args(IF HasNPT(a.routine)
                                THEN a.rcut + dr_buffer_lattice ELSE a.rcut,
                              s1.reference_box) IN
    IF sa.raised # NoError THEN [s1 EXCEPT !.raised = sa.raised]
    ELSE
    LET s2 == [s1 EXCEPT !.static_args =
                   [use_neighbor_list |-> sa.use_neighbor_list,
                    lattice |-> sa.lattice]] IN
    \* lines 82-87: self.position is never assigned
    IF s2.static_args.use_neighbor_list
      THEN [s2 EXCEPT !.nbrs = [size |-> buffer_size0],
                      !.raised = "AttributeError:position"]
    ELSE
    \* lines 89-108
    LET r == routine_setup(a.routine, a.routine_args)
        s3 == [s2 EXCEPT !.routine_fn = r.routine_fn] IN
    IF r.raised # NoError THEN [s3 EXCEPT !.raised = r.raised]
    ELSE
    \* lines 109-123: line 113 assigns what init_fn returned; line 123 is an
    \* expression statement, the state that set returns is not assigned
    LET init_state == InitState(a, s3.reference_box)
        unassigned == IF a.init_temperature = None
                        THEN set(init_state, a.velocity) ELSE init_state
    IN  [s3 EXCEPT !.init_fn_called = TRUE, !.state = init_state]

CtorInit ==
    /\ args \in CtorArgs
    /\ self = None /\ cpc = "call"
    /\ steps = 0 /\ next_chunk = 0 /\ states = None /\ rpc = "off"
    /\ carry = None /\ inner = None /\ ipc = "off"
    /\ DriverOff /\ PartOff

Construct ==
    /\ cpc = "call"
    /\ self' = Simulation(args)
    /\ cpc' = IF self'.raised = NoError THEN "constructed" ELSE "raised"
    /\ UNCHANGED << args, steps, next_chunk, states, rpc, carry, inner, ipc,
                    driver_vars, part_vars >>

CtorNext == Construct

CtorSpec == CtorInit /\ [][CtorNext]_vars

\* ==================================================== constructor claims
\* the cutoff get_static_args is called with (lines 74 and 79)
RcutMaybeWithBuffer ==
    IF HasNPT(args.routine) THEN args.rcut + dr_buffer_lattice ELSE args.rcut
Orthorhombic(box) == IsDiagonal(box)
\* the constructor has run, to its end or to an exception
Returned == cpc \in {"constructed", "raised"}

\* C11: get_static_args selects neighbor-list mode (use_neighbor_list true,
\* no lattice entry) when the box is orthorhombic and twice the cutoff,
\* buffer included, is less than the shortest box dimension, and lattice
\* mode (use_neighbor_list false, a lattice candidate) otherwise; a box that
\* is not orthorhombic never selects neighbor-list mode.
C11_ModeSelection ==
    (Returned /\ self.reference_box # None
       /\ self.raised \notin {"ValueError:velocity", "ValueError:box"})
      => /\ self.static_args # None
         /\ IF Orthorhombic(args.box)
                 /\ 2 * RcutMaybeWithBuffer < MinEdge(self.reference_box)
              THEN /\ self.static_args.use_neighbor_list
                   /\ self.static_args.lattice = None
              ELSE /\ ~self.static_args.use_neighbor_list
                   /\ self.static_args.lattice # None

\* C14: construction requires exactly one of velocity and init_temperature:
\* with neither, and with both, the constructor raises and no Simulation is
\* constructed.
C14_ExactlyOneOfVelocityTemperature ==
    cpc = "constructed"
      => (args.velocity = None) # (args.init_temperature = None)

\* the inputs the constructor must refuse
NeitherGiven == args.velocity = None /\ args.init_temperature = None
MissingTemperature ==
    /\ args.routine \in {"NVT_Nose_Hoover", "NPT_Nose_Hoover"}
    /\ "temperature" \notin args.routine_args
MissingPressure ==
    /\ args.routine = "NPT_Nose_Hoover"
    /\ "pressure" \notin args.routine_args
UnknownRoutine ==
    args.routine \notin {"NVE", "NVT_Nose_Hoover", "NPT_Nose_Hoover"}
ConfigErrors ==
    {"ValueError:velocity", "ValueError:temperature", "ValueError:pressure",
     "NotImplementedError"}

\* C15: every fatal configuration error (neither velocity nor
\* init_temperature; NVT_Nose_Hoover without temperature; NPT_Nose_Hoover
\* without temperature or pressure; an unknown routine) ends the constructor
\* with an exception, each exception is raised for its own cause, and when
\* it is raised init_fn has not been called and no state exists.
C15_ConfigErrorsBeforeInit ==
    Returned
      => /\ (NeitherGiven \/ MissingTemperature \/ MissingPressure \/ UnknownRoutine)
              => /\ cpc = "raised"
                 /\ ~self.init_fn_called /\ self.state = None
         /\ NeitherGiven => self.raised = "ValueError:velocity"
         /\ self.raised = "ValueError:velocity" => NeitherGiven
         /\ self.raised = "ValueError:temperature" => MissingTemperature
         /\ self.raised = "ValueError:pressure" => MissingPressure
         /\ self.raised = "NotImplementedError" => UnknownRoutine
         /\ self.raised \in ConfigErrors
              => ~self.init_fn_called /\ self.state = None
         /\ (self.static_args # None /\ MissingPressure)
              => self.raised \in ConfigErrors

\* C15 witness: the last of the checks has raised, after the box was handled
\* and the static arguments were built
C15_Witness ==
    /\ cpc = "raised" /\ self.raised = "ValueError:pressure"
    /\ self.static_args # None /\ ~self.init_fn_called

C17_ReferenceBoxDefined ==
    (Returned /\ ~NeitherGiven)
      => /\ self.reference_box # None
         /\ self.raised # "AttributeError:reference_box"
         /\ self.reference_box =
              IF Orthorhombic(args.box) THEN Vec3(args.box.diag) ELSE args.box

\* ================================================ driver claims, continued
\* C18: the two accumulated and saved arrays are positions over time and
\* velocities over time: every batch of vel_traj, and of the saved *_vel.npy,
\* holds the velocity frames of a committed chunk, sampled like the
\* positions.
C18_VelocityTrajectoryHoldsVelocities ==
    /\ \A b \in Batches(pos_traj) : b.field = "position"
    /\ \A b \in Batches(vel_traj) : b.field = "velocity"
    /\ Len(vel_traj) = Len(pos_traj)
    /\ \A k \in 1 .. Len(vel_traj) :
         /\ vel_traj[k].first = pos_traj[k].first
         /\ vel_traj[k].count = pos_traj[k].count
    /\ files # None => \A b \in Batches(files.vel) : b.field = "velocity"

\* ======================================================== Simulation.run
\* largest value of self.step a run starts from
MaxStep == 120
\* largest steps argument of run
MaxRunSteps == 2

\* the chunk size the claim states: up to the next report, at most one
\* granule
NextChunk_Granularity(step) ==
    Min(report_interval - (step % report_interval), step_chunk_size)

\* lines 171-172
NextChunk(step) ==
    Min(report_interval - (step % report_interval),
        step_chunk_size - (step % step_chunk_size))

\* constructor arguments that construct a Simulation
GoodArgs ==
    {a \in CtorArgs :
        /\ a.box = [shape |-> "scalar", diag |-> << 10, 10, 10 >>, off |-> 0]
        /\ a.rcut = 2
        /\ a.routine_args =
              IF a.routine = "NPT_Nose_Hoover" THEN {"temperature", "pressure"}
              ELSE IF a.routine = "NVT_Nose_Hoover" THEN {"temperature"}
              ELSE {}
        /\ a.velocity = None /\ a.init_temperature # None
        /\ Simulation(a).raised = NoError}

\* a constructed Simulation whose step attribute holds some value, and a
\* call run(steps, state)
RunInit ==
    /\ args \in GoodArgs
    /\ \E k \in 0 .. MaxStep : self = [Simulation(args) EXCEPT !.step = k]
    /\ cpc = "constructed"
    /\ steps \in 0 .. MaxRunSteps
    /\ next_chunk = 0 /\ states = None /\ rpc = "call"
    /\ carry = None /\ inner = None /\ ipc = "off"
    /\ DriverOff /\ PartOff

\* lines 167-169 with steps <= 0: the loop body never runs
RunReturn ==
    /\ rpc = "call" /\ ~(steps > 0)
    /\ rpc' = "returned"
    /\ UNCHANGED << args, self, cpc, steps, next_chunk, states, carry, inner,
                    ipc, driver_vars, part_vars >>

\* lines 167-176 with steps > 0: next_chunk and the carry are computed, then
\* jax.lax.scan calls self.inner_step_fn(carry, x) and inner_step, which
\* takes the one parameter states, raises TypeError. Nothing after line 176
\* runs: self.step and steps keep their values.
RunRaise ==
    /\ rpc = "call" /\ steps > 0
    /\ next_chunk' = NextChunk(self.step)
    /\ states' = [state |-> self.state,
                  nbrs |-> IF self.static_args.use_neighbor_list
                             THEN self.nbrs ELSE None,
                  overflow |-> << FALSE, FALSE, FALSE >>]
    /\ rpc' = "TypeError"
    /\ UNCHANGED << args, self, cpc, steps, carry, inner, ipc,
                    driver_vars, part_vars >>

RunNext == RunReturn \/ RunRaise

RunSpec == RunInit /\ [][RunNext]_vars

\* ============================================================== run claims
\* run has computed next_chunk
ChunkChosen == rpc = "TypeError"
\* the chunk [step, step + n) lies within one period of length m
WithinPeriod(step, n, m) == step \div m = (step + n - 1) \div m

\* C13 as stated: next_chunk is the smaller of the steps remaining until the
\* next multiple of report_interval and the granularity _step_chunk_size;
\* hence 1 <= next_chunk <= _step_chunk_size and the chunk does not cross a
\* report boundary.
C13_NextChunkIsMinOfReportAndGranularity ==
    ChunkChosen
      => /\ next_chunk = Min(report_interval - (self.step % report_interval),
                             step_chunk_size)
         /\ 1 <= next_chunk /\ next_chunk <= step_chunk_size
         /\ WithinPeriod(self.step, next_chunk, report_interval)

\* C13 as amended: next_chunk is at least 1 and at most _step_chunk_size,
\* the chunk crosses neither a report boundary nor a multiple of
\* _step_chunk_size, and it ends on one of the two.
C13_NextChunkAligned ==
    ChunkChosen
      => /\ 1 <= next_chunk /\ next_chunk <= step_chunk_size
         /\ WithinPeriod(self.step, next_chunk, report_interval)
         /\ WithinPeriod(self.step, next_chunk, step_chunk_size)
         /\ \/ (self.step + next_chunk) % report_interval = 0
            \/ (self.step + next_chunk) % step_chunk_size = 0

\* C13 witness: a chunk chosen at a step that is not a multiple of the
\* granularity, shorter than the granularity
C13_Witness ==
    /\ ChunkChosen /\ self.step % step_chunk_size # 0
    /\ next_chunk < step_chunk_size
    /\ next_chunk < report_interval - (self.step % report_interval)

\* ============================================================ inner_step
\* Positions are followed through the atom that has moved most: its
\* coordinate along its path, in tenths of an Angstrom.
MaxPos == 5
Positions == 0 .. MaxPos
\* reference positions a neighbor list may have been built at
RefPositions == {0, 1}
\* box edges an NPT state may take
BoxEdges == {3, 10}
\* longest scan of inner_step followed (next_chunk is at most 10)
MaxScan == 3

\* check_lattice_overflow(position, box), lines 125-128
check_lattice_overflow(position, box) == FALSE

\* check_hard_overflow(box), lines 130-136
check_hard_overflow(box) == IF box = None THEN FALSE ELSE FALSE

\* check_soft_overflow(position, ref_position, box), lines 138-140
check_soft_overflow(position, ref_position, box) == FALSE

\* nbrs.update(st.position, box=npt_box): the list rebuilt in place at
\* position; ovf is whether a row overflowed
update(nb, position, ovf) ==
    [nb EXCEPT !.reference_position = position,
               !.did_buffer_overflow = nb.did_buffer_overflow \/ ovf,
               !.updates = nb.updates + 1]

\* inner_step with the flags of the two modes exchanged
inner_step_WrongFlag(routine, sim, c, new_state, ovf) ==
    LET st == c.state
        npt_box == IF HasNPT(routine) THEN st.box ELSE None
        current_box == IF HasNPT(routine) THEN st.box ELSE sim.reference_box
    IN  IF c.nbrs = None
          THEN [raised |-> "AttributeError", carry |-> c,
                soft_overflow |-> FALSE, used |-> None, npt_box |-> npt_box]
          ELSE
    LET soft_overflow ==
            check_soft_overflow(st.position, c.nbrs.reference_position,
                                current_box)
        nbrs1 == IF soft_overflow THEN update(c.nbrs, st.position, ovf)
                                  ELSE c.nbrs
        overflow ==
            IF sim.static_args.use_neighbor_list
              THEN << c.overflow[1],
                      c.overflow[2] \/ nbrs1.did_buffer_overflow,
                      c.overflow[3] >>
              ELSE << c.overflow[1] \/ check_lattice_overflow(new_state.position,
                                                              current_box),
                      c.overflow[2],
                      c.overflow[3] \/ check_hard_overflow(npt_box) >>
    IN  [raised |-> NoError,
         carry |-> [state |-> new_state, nbrs |-> nbrs1, overflow |-> overflow],
         soft_overflow |-> soft_overflow, used |-> nbrs1, npt_box |-> npt_box]

\* inner_step(states), lines 143-164. new_state is what self.apply_fn
\* returns; used is the list apply_fn was given. Line 147 reads
\* nbrs.reference_position, which raises when nbrs is None.
inner_step(routine, sim, c, new_state, ovf) ==
    LET st == c.state
        npt_box == IF HasNPT(routine) THEN st.box ELSE None
        current_box == IF HasNPT(routine) THEN st.box ELSE sim.reference_box
    IN  IF c.nbrs = None
          THEN [raised |-> "AttributeError", carry |-> c,
                soft_overflow |-> FALSE, used |-> None, npt_box |-> npt_box]
          ELSE
    LET soft_overflow ==
            check_soft_overflow(st.position, c.nbrs.reference_position,
                                current_box)
        nbrs1 == IF soft_overflow THEN update(c.nbrs, st.position, ovf)
                                  ELSE c.nbrs
        overflow ==
            IF sim.static_args.use_neighbor_list
              THEN << c.overflow[1] \/ nbrs1.did_buffer_overflow,
                      c.overflow[2],
                      c.overflow[3] \/ check_hard_overflow(npt_box) >>
              ELSE << c.overflow[1],
                      c.overflow[2] \/ check_lattice_overflow(new_state.position,
                                                              current_box),
                      c.overflow[3] >>
    IN  [raised |-> NoError,
         carry |-> [state |-> new_state, nbrs |-> nbrs1, overflow |-> overflow],
         soft_overflow |-> soft_overflow, used |-> nbrs1, npt_box |-> npt_box]

\* The scan of one chunk: inner_step applied to the carry that run builds
\* at lines 173-175, as jax.lax.scan threads it. The mode is an input here
\* (inner_step tests self.static_args['use_neighbor_list'] at lines 154 and
\* 157), and so is the list of neighbor-list mode, an object with the
\* attributes inner_step reads.
InnerInit ==
    /\ args \in GoodArgs
    /\ \E mode \in BOOLEAN, ref \in RefPositions, ovf \in BOOLEAN,
          k \in (step_chunk_size - MaxScan) .. (step_chunk_size - 1) :
         self = [Simulation(args) EXCEPT
                    !.step = k,
                    !.static_args = [use_neighbor_list |-> mode,
                                     lattice |-> IF mode THEN None ELSE @.lattice],
                    !.nbrs = IF mode
                               THEN [reference_position |-> ref,
                                     did_buffer_overflow |-> ovf,
                                     updates |-> 0]
                               ELSE None,
                    !.state = [@ EXCEPT !.position = ref]]
    /\ cpc = "constructed"
    /\ steps = 1
    /\ next_chunk = NextChunk(self.step)
    /\ states = [state |-> self.state,
                 nbrs |-> IF self.static_args.use_neighbor_list
                            THEN self.nbrs ELSE None,
                 overflow |-> << FALSE, FALSE, FALSE >>]
    /\ rpc = "scan"
    /\ carry = states
    /\ inner = None /\ ipc = "chunk"
    /\ DriverOff /\ PartOff

\* the states self.apply_fn may return from st: the atoms have moved, the
\* box has changed if there is one, one more step is integrated
Applied(st) ==
    {[st EXCEPT !.position = p, !.box = b, !.steps_run = @ + 1] :
        p \in Positions,
        b \in IF st.box = None THEN {None}
                                ELSE {Vec3(<< e, e, e >>) : e \in BoxEdges}}

\* one inner step that returns
InnerStep ==
    /\ ipc = "chunk" /\ carry.state.steps_run < next_chunk
    /\ carry.nbrs # None
    /\ \E new_state \in Applied(carry.state), ovf \in BOOLEAN :
         LET r == inner_step(args.routine, self, carry, new_state, ovf)
         IN  /\ carry' = r.carry
             /\ inner' = [position |-> carry.state.position,
                          reference_position |-> carry.nbrs.reference_position,
                          nbrs |-> carry.nbrs,
                          overflow |-> carry.overflow,
                          soft_overflow |-> r.soft_overflow,
                          used |-> r.used, npt_box |-> r.npt_box]
    /\ UNCHANGED << args, self, cpc, steps, next_chunk, states, rpc, ipc,
                    driver_vars, part_vars >>

\* one inner step that raises at line 147
InnerStepRaise ==
    /\ ipc = "chunk" /\ carry.state.steps_run < next_chunk
    /\ carry.nbrs = None
    /\ LET r == inner_step(args.routine, self, carry, carry.state, FALSE)
       IN  /\ carry' = r.carry
           /\ ipc' = r.raised
    /\ UNCHANGED << args, self, cpc, steps, next_chunk, states, rpc, inner,
                    driver_vars, part_vars >>

InnerNext == InnerStep \/ InnerStepRaise

InnerSpec == InnerInit /\ [][InnerNext]_vars

\* ======================================================= inner_step claims
NeighborListMode == self.static_args.use_neighbor_list
\* an inner step has returned
Stepped == ipc = "chunk" /\ inner # None
Abs(x) == IF x >= 0 THEN x ELSE -x
\* how far the atoms were from the list's reference positions when the last
\* inner step began
Drift == Abs(inner.position - inner.reference_position)

\* C12: in NPT with neighbor-list mode active, once an inner step of a chunk
\* has seen a box whose shortest edge is below twice the cutoff, the hard
\* overflow flag of the chunk's carry is raised (on which the driver is to
\* fall back to lattice mode and retry the chunk).
C12_HardOverflowRaised ==
    (Stepped /\ NeighborListMode /\ HasNPT(args.routine)
       /\ MinEdge(inner.npt_box) < 2 * args.rcut)
      => carry.overflow[3]

\* a flag that is up stays up through an inner step
FlagsKeptStep == \A f \in 1 .. 3 : carry.overflow[f] => carry'.overflow[f]

C20_DriftDrivesUpdate ==
    (Stepped /\ NeighborListMode)
      => IF 2 * Drift > dr_buffer_neighbor
           THEN /\ inner.soft_overflow
                /\ inner.used.reference_position = inner.position
                /\ inner.used.updates = inner.nbrs.updates + 1
           ELSE /\ ~inner.soft_overflow
                /\ inner.used = inner.nbrs

\* ====================================================== run claims, continued
\* a call of run with steps > 0 leaves the call having integrated steps
\* steps and advanced the step counter by as many
RunCompletesStep ==
    (rpc = "call" /\ steps > 0)
      => /\ rpc' = "returned"
         /\ self'.state.steps_run = self.state.steps_run + steps
         /\ self'.step = self.step + steps

\* C21: run(steps) with steps > 0 and no overflow returns, having executed
\* exactly steps integration steps, and self.step has grown by the number
\* of steps executed.
C21_RunExecutesSteps == [][RunCompletesStep]_vars

\* ============================================== constructor claims, continued
\* C22: constructed with initial velocities and no init_temperature, the
\* Simulation holds a state whose velocities are the supplied ones.
C22_GivenVelocityKept ==
    (cpc = "constructed" /\ args.velocity # None /\ args.init_temperature = None)
      => self.state.velocity = args.velocity

====
